---------------------------- MODULE Spec2Model ----------------------------
(***************************************************************************)
(* A model of ArchMind (vishnu-0011/Archy): the diagram-code normalizer    *)
(* cleanMermaidCode of services/geminiService.ts, the text-response        *)
(* generateArchitecture of the same file, the node resolver                *)
(* handleNodeClick of App.tsx, and the App / DiagramRenderer state that    *)
(* pairs a diagram with its node records.                                  *)
(*                                                                         *)
(* Text is a sequence of one-character strings.  The regular expressions   *)
(* of the source are written as syntax trees and run by a backtracking     *)
(* matcher with the priorities of the ECMAScript matcher (greedy before    *)
(* lazy, left alternative first, leftmost start first).                    *)
(***************************************************************************)
EXTENDS Naturals, Integers, Sequences, FiniteSets, TLC

VARIABLES
    \* the normalizer as a function (geminiService.ts)
    raw,        \* the text handed to cleanMermaidCode
    cleaned,    \* cleanMermaidCode(raw), once computed
    recleaned,  \* cleanMermaidCode(cleaned), once computed
    cpc,        \* position of the normalizer run: "start", "once", "twice";
                \* of the text-response run: "text", "answered"; else "idle"
    answer,     \* <<>>, or <<what the text-response generateArchitecture returned for raw>>
    \* App (App.tsx)
    messages,            \* the transcript
    isLoading,
    currentDiagramCode,
    currentNodeDetails,
    diagramVersions,
    showHistory,
    selectedNode,        \* <<>> for null, or <<record of node details>>
    activeElementId,     \* <<>> for null, or <<element id>>
    calls,               \* the handleSendMessage calls waiting on a promise
    \* DiagramRenderer (components/DiagramRenderer.tsx)
    svgContent,          \* <<>> for '', or <<code and theme the shown SVG was rendered from>>
    error,               \* TRUE when error holds 'Diagram Syntax Error.'
    isRendering,
    theme,
    renders,             \* the mermaid.render calls in flight, oldest first
    listeners,           \* per click listener on the nodes of the mounted SVG,
                         \* the currentNodeDetails its onNodeClick closes over
    lastClick            \* <<>>, or <<the click event just handled>>

cleanVars == <<raw, cleaned, recleaned, cpc, answer>>
appVars == <<messages, isLoading, currentDiagramCode, currentNodeDetails,
             diagramVersions, showHistory, selectedNode, activeElementId, calls>>
rendererVars == <<svgContent, error, isRendering, theme, renders, listeners>>
vars == <<cleanVars, appVars, rendererVars, lastClick>>

-----------------------------------------------------------------------------
(* Characters *)

Lower == {"a","b","c","d","e","f","g","h","i","j","k","l","m",
          "n","o","p","q","r","s","t","u","v","w","x","y","z"}
Upper == {"A","B","C","D","E","F","G","H","I","J","K","L","M",
          "N","O","P","Q","R","S","T","U","V","W","X","Y","Z"}
Digit == {"0","1","2","3","4","5","6","7","8","9"}
Punct == {" ", "\n", "\t", "-", ">", ".", "=", "|", ":", ";", "[", "]", "(", ")",
          "{", "}", "/", "\"", "'", "%", "_", ",", "&", "#"}
\* the grave accent of a code fence, which no TLA+ string can hold
Backtick == "grave"
Alphabet == Lower \cup Upper \cup Digit \cup Punct \cup {Backtick}

\* \s of the source's regular expressions and the characters trim() removes
WS == {" ", "\n", "\t"}
\* . of the source's regular expressions (no s flag): anything but a line break
Dot == Alphabet \ {"\n"}
\* [a-zA-Z0-9_-]
IdChar == Lower \cup Upper \cup Digit \cup {"_", "-"}

-----------------------------------------------------------------------------
(* Regular expressions as syntax trees *)

None == <<>>
Ch(S)        == [t |-> "ch",   set |-> S,  subs |-> <<>>,  k |-> 0, greedy |-> TRUE]
Cat(rs)      == [t |-> "cat",  set |-> {}, subs |-> rs,    k |-> 0, greedy |-> TRUE]
Alt(rs)      == [t |-> "alt",  set |-> {}, subs |-> rs,    k |-> 0, greedy |-> TRUE]
Star(r)      == [t |-> "star", set |-> {}, subs |-> <<r>>, k |-> 0, greedy |-> TRUE]
LazyStar(r)  == [t |-> "star", set |-> {}, subs |-> <<r>>, k |-> 0, greedy |-> FALSE]
Grp(n, r)    == [t |-> "grp",  set |-> {}, subs |-> <<r>>, k |-> n, greedy |-> TRUE]
NotAhead(r)  == [t |-> "nla",  set |-> {}, subs |-> <<r>>, k |-> 0, greedy |-> TRUE]
Bol          == [t |-> "bol",  set |-> {}, subs |-> <<>>,  k |-> 0, greedy |-> TRUE]
Eol          == [t |-> "eol",  set |-> {}, subs |-> <<>>,  k |-> 0, greedy |-> TRUE]
Empty        == Cat(<<>>)
Plus(r)      == Cat(<<r, Star(r)>>)
Opt(r)       == Alt(<<r, Empty>>)
TwoOrMore(r) == Cat(<<r, r, Star(r)>>)
Lit(w)       == Cat([i \in 1..Len(w) |-> Ch({w[i]})])

\* the capture groups of a match: group n is caps[n]
NoCaps == <<None, None>>

RECURSIVE M(_, _, _, _), MSeq(_, _, _, _, _), MAlt(_, _, _, _, _), Chain(_, _, _, _, _)

\* Every way r matches s from position i, as <<end position, captures>>, in
\* the order the backtracking matcher tries them.
M(r, s, i, caps) ==
    CASE r.t = "ch"   -> IF i <= Len(s) /\ s[i] \in r.set
                            THEN << <<i + 1, caps>> >> ELSE <<>>
      [] r.t = "bol"  -> IF i = 1 THEN << <<i, caps>> >> ELSE <<>>
      [] r.t = "eol"  -> IF i = Len(s) + 1 THEN << <<i, caps>> >> ELSE <<>>
      [] r.t = "cat"  -> MSeq(r.subs, 1, s, i, caps)
      [] r.t = "alt"  -> MAlt(r.subs, 1, s, i, caps)
      [] r.t = "star" ->
            \* every starred expression of the source is a character class:
            \* the run of n characters in it gives the n + 1 ways to match
            LET set == r.subs[1].set
                n == CHOOSE k \in 0..(Len(s) + 1 - i) :
                        /\ \A h \in i..(i + k - 1) : s[h] \in set
                        /\ (i + k > Len(s) \/ s[i + k] \notin set)
            IN  [j \in 1..(n + 1) |->
                    <<(IF r.greedy THEN i + n + 1 - j ELSE i + j - 1), caps>>]
      [] r.t = "grp"  ->
            LET inner == M(r.subs[1], s, i, caps)
            IN  [j \in 1..Len(inner) |->
                    <<inner[j][1],
                      [inner[j][2] EXCEPT ![r.k] = SubSeq(s, i, inner[j][1] - 1)]>>]
      [] r.t = "nla"  -> IF M(r.subs[1], s, i, caps) = <<>>
                            THEN << <<i, caps>> >> ELSE <<>>

MSeq(subs, n, s, i, caps) ==
    IF n > Len(subs) THEN << <<i, caps>> >>
    ELSE Chain(M(subs[n], s, i, caps), 1, subs, n + 1, s)

MAlt(subs, n, s, i, caps) ==
    IF n > Len(subs) THEN <<>>
    ELSE M(subs[n], s, i, caps) \o MAlt(subs, n + 1, s, i, caps)

Chain(res, j, subs, n, s) ==
    IF j > Len(res) THEN <<>>
    ELSE MSeq(subs, n, s, res[j][1], res[j][2]) \o Chain(res, j + 1, subs, n, s)

NoMatch == [ok |-> FALSE, from |-> 0, to |-> 0, caps |-> NoCaps, text |-> <<>>]

\* the match found at position j, the first the matcher finds there
FirstOr(r, s, j) ==
    [ok |-> TRUE, from |-> j, to |-> M(r, s, j, NoCaps)[1][1],
     caps |-> M(r, s, j, NoCaps)[1][2], text |-> s]

\* RegExp exec from position i: the leftmost match
Find(r, s, i) ==
    IF \A j \in i..(Len(s) + 1) : M(r, s, j, NoCaps) = <<>> THEN NoMatch
    ELSE FirstOr(r, s, CHOOSE j \in i..(Len(s) + 1) :
                          /\ M(r, s, j, NoCaps) # <<>>
                          /\ \A h \in i..(j - 1) : M(r, s, h, NoCaps) = <<>>)

\* RegExp.prototype.test
Test(r, s) == Find(r, s, 1).ok

\* s with the match m replaced by '' (group = 0) or '$1' (group = 1)
Spliced(m, s, group) ==
    IF m.ok THEN SubSeq(s, 1, m.from - 1)
                 \o (IF group = 0 THEN <<>> ELSE m.caps[group])
                 \o SubSeq(s, m.to, Len(s))
            ELSE s

\* String.prototype.replace with a regular expression without the g flag
\* (the receiver s is evaluated before the call, as in JavaScript: the test
\* Len(s) >= 0 is always true and only fixes that order)
ReplaceFirst(r, s, group) ==
    IF Len(s) >= 0 THEN Spliced(Find(r, s, 1), s, group) ELSE s

RECURSIVE AllMatches(_, _, _), ThenMatches(_, _, _)
\* the successive matches of a g-flag regular expression (an empty match
\* advances by one character)
AllMatches(r, s, i) == ThenMatches(Find(r, s, i), r, s)

ThenMatches(m, r, s) ==
    IF ~m.ok THEN <<>>
    ELSE <<m>> \o AllMatches(r, s, IF m.to > m.from THEN m.to ELSE m.to + 1)

-----------------------------------------------------------------------------
(* String helpers of the JavaScript runtime *)

RECURSIVE TrimStart(_), TrimEnd(_), Split(_, _), Join(_, _)
TrimStart(s) == IF s # <<>> /\ Head(s) \in WS THEN TrimStart(Tail(s)) ELSE s
TrimEnd(s)   == IF s # <<>> /\ s[Len(s)] \in WS
                   THEN TrimEnd(SubSeq(s, 1, Len(s) - 1)) ELSE s
Trim(s)      == TrimEnd(TrimStart(s))

StartsWith(s, p) == Len(p) <= Len(s) /\ SubSeq(s, 1, Len(p)) = p

\* s.split(sep) for a one-character separator
Split(s, sep) ==
    IF \E i \in 1..Len(s) : s[i] = sep
       THEN LET i == CHOOSE j \in 1..Len(s) :
                        s[j] = sep /\ \A h \in 1..(j - 1) : s[h] # sep
            IN  <<SubSeq(s, 1, i - 1)>> \o Split(SubSeq(s, i + 1, Len(s)), sep)
       ELSE <<s>>

\* lines.join(sep)
Join(ls, sep) ==
    IF ls = <<>> THEN <<>>
    ELSE IF Len(ls) = 1 THEN ls[1]
    ELSE ls[1] \o <<sep>> \o Join(Tail(ls), sep)

-----------------------------------------------------------------------------
(* cleanMermaidCode, structured-output version (geminiService.ts 53-120) *)

kwGraph     == <<"g","r","a","p","h">>
kwFlowchart == <<"f","l","o","w","c","h","a","r","t">>
FlowchartLR == kwFlowchart \o <<" ","L","R">>
CommentMark == <<"%","%">>

\* (-{2,}>?|\.-+>|={2,}>)
EdgeOp ==
    Alt(<< Cat(<<TwoOrMore(Ch({"-"})), Opt(Ch({">"}))>>),
           Cat(<<Ch({"."}), Plus(Ch({"-"})), Ch({">"})>>),
           Cat(<<TwoOrMore(Ch({"="})), Ch({">"})>>) >>)

\* (?:\|[^|]+\|)?
EdgeLabel == Opt(Cat(<<Ch({"|"}), Plus(Ch(Alphabet \ {"|"})), Ch({"|"})>>))

\* /\s*(-{2,}>?|\.-+>|={2,}>)(?:\|[^|]+\|)?\s*$/
ReDanglingArrow == Cat(<<Star(Ch(WS)), Grp(1, EdgeOp), EdgeLabel, Star(Ch(WS)), Eol>>)

\* (\]|\)|\}|>)
ShapeClose == Grp(1, Alt(<<Ch({"]"}), Ch({")"}), Ch({"}"}), Ch({">"})>>))

\* /(\]|\)|\}|>)\s*:\s+[^;]*$/
ReColonDescription ==
    Cat(<<ShapeClose, Star(Ch(WS)), Ch({":"}), Plus(Ch(WS)),
          Star(Ch(Alphabet \ {";"})), Eol>>)

\* /(\]|\)|\}|>)\s+-\s+(?!>|.*>).*$/
ReDashDescription ==
    Cat(<<ShapeClose, Plus(Ch(WS)), Ch({"-"}), Plus(Ch(WS)),
          NotAhead(Alt(<<Ch({">"}), Cat(<<Star(Ch(Dot)), Ch({">"})>>)>>)),
          Star(Ch(Dot)), Eol>>)

\* /(:::[a-zA-Z0-9_-]+)\s+(?![-=.>]).*$/
ReClassDescription ==
    Cat(<<Grp(1, Cat(<<Lit(<<":",":",":">>), Plus(Ch(IdChar))>>)), Plus(Ch(WS)),
          NotAhead(Ch({"-", "=", ".", ">"})), Star(Ch(Dot)), Eol>>)

\* /:\s*$/
ReTrailingColon == Cat(<<Ch({":"}), Star(Ch(WS)), Eol>>)

\* /^(\s*(-{2,}>?|\.-+>|={2,}>)(?:\|[^|]+\|)?\s*)$/
ReOnlyArrow ==
    Cat(<<Bol, Star(Ch(WS)), Grp(2, EdgeOp), EdgeLabel, Star(Ch(WS)), Eol>>)

\* (LR|RL|BT|TD)
DirectionWord ==
    Grp(1, Alt(<<Lit(<<"L","R">>), Lit(<<"R","L">>), Lit(<<"B","T">>), Lit(<<"T","D">>)>>))

\* /graph\s+(LR|RL|BT|TD)/g
ReGraphDirection == Cat(<<Lit(kwGraph), Plus(Ch(WS)), DirectionWord>>)

\* /flowchart\s+(LR|RL|BT|TD)/g
ReFlowchartDirection == Cat(<<Lit(kwFlowchart), Plus(Ch(WS)), DirectionWord>>)

\* /^flowchart\s+(TD|LR|BT|RL)\s*/
ReLeadingDirection ==
    Cat(<<Bol, Lit(kwFlowchart), Plus(Ch(WS)),
          Grp(1, Alt(<<Lit(<<"T","D">>), Lit(<<"L","R">>), Lit(<<"B","T">>), Lit(<<"R","L">>)>>)),
          Star(Ch(WS))>>)

\* the callback of lines.map (lines 57-84)
CleanLine(line) ==
    IF StartsWith(Trim(line), CommentMark) THEN Trim(line)
    ELSE ReplaceFirst(ReTrailingColon,                           \* line 81
           ReplaceFirst(ReClassDescription,                      \* line 78
             ReplaceFirst(ReDashDescription,                     \* line 74
               ReplaceFirst(ReColonDescription,                  \* line 70
                 ReplaceFirst(ReDanglingArrow, Trim(line), 0),   \* line 65
                 1), 1), 1), 0)

\* the two filters of lines 85-87
KeepLine(line) == Len(line) > 0 /\ ~Test(ReOnlyArrow, Trim(line))

\* lines.map of line 56
MapLines(lines) == [i \in 1..Len(lines) |-> CleanLine(lines[i])]

\* lines 54-88
CleanLines(code) == Join(SelectSeq(MapLines(Split(code, "\n")), KeepLine), "\n")

\* /^"(.*)"$/
ReQuoted == Cat(<<Bol, Ch({"\""}), Grp(1, Star(Ch(Dot))), Ch({"\""}), Eol>>)

\* content.replace(/"/g, "'")
QuotesToApostrophes(s) == [i \in 1..Len(s) |-> IF s[i] = "\"" THEN "'" ELSE s[i]]

\* lines 98-104
normalizeLabel(label) ==
    <<"\"">>
    \o QuotesToApostrophes(Trim(ReplaceFirst(ReQuoted, Trim(label), 1)))
    \o <<"\"">>

ToLowerCase(s) ==
    LET up == <<"A","B","C","D","E","F","G","H","I","J","K","L","M",
                "N","O","P","Q","R","S","T","U","V","W","X","Y","Z">>
        lo == <<"a","b","c","d","e","f","g","h","i","j","k","l","m",
                "n","o","p","q","r","s","t","u","v","w","x","y","z">>
    IN  [i \in 1..Len(s) |->
            IF s[i] \in Upper THEN lo[CHOOSE n \in 1..26 : up[n] = s[i]] ELSE s[i]]

\* ['subgraph', 'class', 'click', 'style', 'classdef', 'direction']
BoxKeywords ==
    { <<"s","u","b","g","r","a","p","h">>, <<"c","l","a","s","s">>,
      <<"c","l","i","c","k">>, <<"s","t","y","l","e">>,
      <<"c","l","a","s","s","d","e","f">>, <<"d","i","r","e","c","t","i","o","n">> }

\* the callback of lines 113-117
BoxRepl(m) ==
    IF ToLowerCase(m.caps[1]) \in BoxKeywords
       THEN SubSeq(m.text, m.from, m.to - 1)
       ELSE m.caps[1] \o <<"[">> \o normalizeLabel(m.caps[2]) \o <<"]">>

\* the second argument of a g-flag replace: a fixed text (lines 91-92), a
\* shape callback (lines 107-110) or the box callback (lines 113-117)
Text(t)            == [kind |-> "text",  text |-> t,    open |-> <<>>, close |-> <<>>]
Rewrap(open, close) == [kind |-> "shape", text |-> <<>>, open |-> open, close |-> close]
BoxCallback        == [kind |-> "box",   text |-> <<>>, open |-> <<>>, close |-> <<>>]

Replacement(how, m) ==
    CASE how.kind = "text"  -> how.text
      [] how.kind = "shape" -> how.open \o normalizeLabel(m.caps[1]) \o how.close
      [] how.kind = "box"   -> BoxRepl(m)

RECURSIVE ReplacedUpTo(_, _, _, _)
\* the text s up to the end of its n-th match, the matches replaced
ReplacedUpTo(s, ms, how, n) ==
    IF n = 0 THEN <<>>
    ELSE ReplacedUpTo(s, ms, how, n - 1)
         \o SubSeq(s, (IF n = 1 THEN 1 ELSE ms[n - 1].to), ms[n].from - 1)
         \o Replacement(how, ms[n])

\* the text s with each of the matches ms replaced
Replaced(s, ms, how) ==
    IF ms = <<>> THEN s
    ELSE ReplacedUpTo(s, ms, how, Len(ms)) \o SubSeq(s, ms[Len(ms)].to, Len(s))

\* String.prototype.replace with a g-flag regular expression (the receiver s
\* is evaluated first, as for ReplaceFirst)
ReplaceAll(r, s, how) ==
    IF Len(s) >= 0 THEN Replaced(s, AllMatches(r, s, 1), how) ELSE s

\* lines 94-96
WithDeclaration(text) ==
    IF ~StartsWith(Trim(text), FlowchartLR)
       THEN FlowchartLR \o <<"\n">> \o ReplaceFirst(ReLeadingDirection, text, 0)
       ELSE text

\* lines 90-96 (text is the value line 85 assigned: evaluated first)
EnsureFlowchartLR(text) ==
    IF Len(text) >= 0
       THEN WithDeclaration(
                ReplaceAll(ReFlowchartDirection,                                 \* line 92
                           ReplaceAll(ReGraphDirection, text, Text(FlowchartLR)),   \* line 91
                           Text(FlowchartLR)))
       ELSE text

\* \s*(.*?)\s* between an opening and a closing delimiter
Shape(open, close) ==
    Cat(<<Lit(open), Star(Ch(WS)), Grp(1, LazyStar(Ch(Dot))), Star(Ch(WS)), Lit(close)>>)

\* /\[\/\s*(.*?)\s*\/\]/g, /\(\[\s*(.*?)\s*\]\)/g, /\[\(\s*(.*?)\s*\)\]/g, /\{\{\s*(.*?)\s*\}\}/g
ReParallelogram == Shape(<<"[","/">>, <<"/","]">>)
ReStadium       == Shape(<<"(","[">>, <<"]",")">>)
ReCylinder      == Shape(<<"[","(">>, <<")","]">>)
ReHexagon       == Shape(<<"{","{">>, <<"}","}">>)

\* /([a-zA-Z0-9_-]+)\[\s*([^"\]\n]*?)\s*\]/g
ReBox ==
    Cat(<<Grp(1, Plus(Ch(IdChar))), Ch({"["}), Star(Ch(WS)),
          Grp(2, LazyStar(Ch(Alphabet \ {"\"", "]", "\n"}))), Star(Ch(WS)), Ch({"]"})>>)

\* lines 106-117 (text is the value lines 90-96 assigned: evaluated first)
QuoteShapes(text) ==
    IF Len(text) >= 0
       THEN ReplaceAll(ReBox,
              ReplaceAll(ReHexagon,
                ReplaceAll(ReCylinder,
                  ReplaceAll(ReStadium,
                    ReplaceAll(ReParallelogram, text, Rewrap(<<"[","/">>, <<"/","]">>)),
                    Rewrap(<<"(","[">>, <<"]",")">>)),
                  Rewrap(<<"[","(">>, <<")","]">>)),
                Rewrap(<<"{","{">>, <<"}","}">>)),
              BoxCallback)
       ELSE text

cleanMermaidCode(code) == QuoteShapes(EnsureFlowchartLR(CleanLines(code)))

-----------------------------------------------------------------------------
(* The state of App and DiagramRenderer after mounting *)

\* App.tsx 12-22
InitApp ==
    /\ messages = <<>>
    /\ isLoading = FALSE
    /\ currentDiagramCode = <<>>
    /\ currentNodeDetails = <<>>
    /\ diagramVersions = <<>>
    /\ showHistory = FALSE
    /\ selectedNode = <<>>
    /\ activeElementId = <<>>
    /\ calls = <<>>

\* DiagramRenderer.tsx 175-178
InitRenderer ==
    /\ svgContent = <<>>
    /\ error = FALSE
    /\ isRendering = FALSE
    /\ theme = "obsidian"
    /\ renders = <<>>
    /\ listeners = <<>>

-----------------------------------------------------------------------------
(* The normalizer applied to model output: raw text drawn from a bounded   *)
(* set of texts, each a concatenation of fragments a model response holds. *)

MaxFrags == 3

Frags ==
    << <<"A">>,                                     \* a node id
       <<"A"," ","-","-",">"," ","B">>,             \* A --> B
       <<" ","-","-",">">>,                         \* an edge operator
       <<":">>,
       <<" ","%","%"," ","c">>,                     \* a comment marker and text
       <<"\n">>,
       <<"g","r","a","p","h"," ","T","D">>,         \* graph TD
       <<"g","r","a","p","h"," ","T","B">>,         \* graph TB
       <<"f","l","o","w","c","h","a","r","t"," ","L","R">>,
       <<"[","x","]">>,                             \* plain box
       <<"[","\"","x","\"","]">>,                   \* pre-quoted box
       <<"[","a","\"","b","]">>,                    \* box with an inner quote
       <<"{","x","}">>,                             \* decision diamond
       <<"(","[","x","]",")">>,                     \* stadium
       <<" ","-"," ","d">>,                         \* a trailing description
       <<":",":",":","d","b">> >>                   \* a class assignment

RECURSIVE Concat(_)
Concat(fs) == IF fs = <<>> THEN <<>> ELSE Frags[Head(fs)] \o Concat(Tail(fs))

Inputs ==
    { Concat(fs) : fs \in UNION { [1..n -> 1..Len(Frags)] : n \in 0..MaxFrags } }

InitClean ==
    /\ raw \in Inputs
    /\ cleaned = <<>>
    /\ recleaned = <<>>
    /\ cpc = "start"
    /\ answer = <<>>
    /\ InitApp /\ InitRenderer /\ lastClick = <<>>

\* generateArchitecture line 178: mermaidCode: cleanMermaidCode(result.mermaidCode || "")
Normalize ==
    /\ cpc = "start"
    /\ cleaned' = cleanMermaidCode(raw)
    /\ cpc' = "once"
    /\ UNCHANGED <<raw, recleaned, answer, appVars, rendererVars, lastClick>>

\* the normalizer applied to its own output
Renormalize ==
    /\ cpc = "once"
    /\ recleaned' = cleanMermaidCode(cleaned)
    /\ cpc' = "twice"
    /\ UNCHANGED <<raw, cleaned, answer, appVars, rendererVars, lastClick>>

NextClean == Normalize \/ Renormalize

SpecClean == InitClean /\ [][NextClean]_vars

-----------------------------------------------------------------------------
(* Node resolution: DiagramRenderer's onClick and App's handleNodeClick *)

\* node records the model returns with a diagram (types.ts NodeDetail: the
\* fields the resolver reads)
Rec(id, label) == [id |-> id, label |-> label]

RecA == Rec(<<"A">>, <<"W","e","b"," ","A","p","p">>)
RecX == Rec(<<"n","0">>, <<"x">>)
RecUsers == Rec(<<"d","b","_","u","s","e","r","s">>,
                <<"U","s","e","r"," ","D","a","t","a","b","a","s","e">>)
RecDatabase == Rec(<<"n","1">>, <<"D","a","t","a","b","a","s","e">>)
RecApi == Rec(<<"n","2">>, <<"A","P","I">>)
RecGate == Rec(<<"n","3">>, <<"G","a","t","e">>)
RecSymbols == Rec(<<"n","4">>, <<"&","&">>)
RecQuoted == Rec(<<"W","e","b","-","U","I">>, <<"\"","F","r","o","n","t","\"">>)

Records == {RecA, RecX, RecUsers, RecDatabase, RecApi, RecGate, RecSymbols, RecQuoted}

\* the nodes of a rendered SVG: the g element's id and the text of its label
El(fullId, label) == [fullId |-> fullId, label |-> label]
FlowchartId(id) == <<"f","l","o","w","c","h","a","r","t","-">> \o id

ElA == El(FlowchartId(<<"A","-","0">>), <<"A">>)
ElB == El(FlowchartId(<<"B","-","1">>), <<"B">>)
ElX == El(FlowchartId(<<"A","-","0">>), <<"x">>)
ElUserDb == El(FlowchartId(<<"u","s","e","r","d","b","-","7">>), <<"U","s","e","r"," ","D","B">>)
ElUserDatabase == El(FlowchartId(<<"x","-","3">>),
                     <<" ","u","s","e","r"," ","d","a","t","a","b","a","s","e"," ">>)
ElGateway == El(FlowchartId(<<"y","-","4">>),
                <<"A","P","I"," ","G","a","t","e","w","a","y">>)
ElWeb == El(FlowchartId(<<"z","-","5">>), <<"W","e","b">>)
ElNoLabel == El(FlowchartId(<<"w","-","6">>), <<>>)
ElWebUi == El(<<"w","e","b","u","i","-","8">>, <<"U","I">>)

AllElements == {ElA, ElB, ElX, ElUserDb, ElUserDatabase, ElGateway, ElWeb, ElNoLabel, ElWebUi}

\* /^flowchart-/
ReFlowchartPrefix == Cat(<<Bol, Lit(kwFlowchart), Ch({"-"})>>)

\* DiagramRenderer.tsx 243: fullId.replace(/^flowchart-/, '').split('-')[0]
NodeIdOf(fullId) == Split(ReplaceFirst(ReFlowchartPrefix, fullId, 0), "-")[1]

\* /['"]+/g and /[^a-z0-9]/g
ReQuoteRun == Plus(Ch({"'", "\""}))
ReNonAlnum == Ch(Alphabet \ (Lower \cup Digit))

\* toLowerCase dropped from line 130
cleanKeepCase(s) ==
    ReplaceAll(ReNonAlnum,
               ReplaceAll(ReQuoteRun, Trim(s), Text(<<>>)),
               Text(<<>>))

\* App.tsx 130
clean(s) ==
    ReplaceAll(ReNonAlnum,
               ReplaceAll(ReQuoteRun, Trim(ToLowerCase(s)), Text(<<>>)),
               Text(<<>>))

\* onClick's nodeId and handleNodeClick's clean, computed once per text
nodeIdOf == [fullId \in {e.fullId : e \in AllElements} |-> NodeIdOf(fullId)]
cleanOf ==
    [s \in {d.id : d \in Records} \cup {d.label : d \in Records}
           \cup {e.label : e \in AllElements} \cup {nodeIdOf[e.fullId] : e \in AllElements}
       |-> clean(s)]

\* String.prototype.includes
Includes(s, sub) ==
    \E i \in 0..(Len(s) - Len(sub)) : SubSeq(s, i + 1, i + Len(sub)) = sub

MinOverlap == 3

\* the return value of the predicate of lines 135-143
Overlap(dId, dLabel, targetId, targetLabel) ==
    \/ dId = targetId
    \/ dLabel = targetLabel
    \/ (Len(dLabel) > MinOverlap /\ Includes(targetLabel, dLabel))
    \/ (Len(targetLabel) > MinOverlap /\ Includes(dLabel, targetLabel))

\* && of line 141 replaced by ||
MatchesOr(d, targetId, targetLabel) ==
    \/ Overlap(cleanOf[d.id], cleanOf[d.label], targetId, targetLabel)
    \/ Len(cleanOf[d.label]) > MinOverlap
    \/ Includes(targetLabel, cleanOf[d.label])

\* the predicate of currentNodeDetails.find (App.tsx 135-143)
Matches(d, targetId, targetLabel) ==
    Overlap(cleanOf[d.id], cleanOf[d.label], targetId, targetLabel)

\* Array.prototype.find: the first of the accepted records hits, as <<d>>,
\* or <<>> for undefined
FirstOf(hits) == IF hits = <<>> THEN <<>> ELSE <<hits[1]>>

\* a record parsed from the response without its id or its label
\* (geminiService.ts 173-179 hands result.nodeDetails on as parsed)
Malformed(d) == ~({"id", "label"} \subseteq DOMAIN d)

\* App.tsx 136-137: clean(undefined) throws a TypeError when find reaches a
\* record without id or label before a record it accepts
Throws(details, nodeId, label) ==
    \E i \in 1..Len(details) :
        /\ Malformed(details[i])
        /\ \A j \in 1..(i - 1) :
              /\ ~Malformed(details[j])
              /\ ~Matches(details[j], cleanOf[nodeId], cleanOf[label])

\* App.tsx 132-143
FindDetail(details, nodeId, label) ==
    FirstOf(SelectSeq(details,
                      LAMBDA d : ~Malformed(d) /\ Matches(d, cleanOf[nodeId], cleanOf[label])))

\* setActiveElementId dropped: the record is selected, the element is not
SelectNodeOnly(sel, detail, nodeId) ==
    IF detail # <<>>
       THEN [node |-> detail, element |-> sel.element, history |-> FALSE]
       ELSE sel

\* App.tsx 145-149
Select(sel, detail, nodeId) ==
    IF detail # <<>>
       THEN [node |-> detail, element |-> <<nodeId>>, history |-> FALSE]
       ELSE sel

\* handleNodeClick (App.tsx 128-150) run by a listener whose closure holds
\* details, on the selection sel = [node, element, history]
HandleNodeClick(sel, details, nodeId, label) ==
    IF Throws(details, nodeId, label) THEN sel
    ELSE Select(sel, FindDetail(details, nodeId, label), nodeId)

RECURSIVE RunListeners(_, _, _, _)
\* the click listeners of a node run in the order they were added
RunListeners(sel, ls, nodeId, label) ==
    IF ls = <<>> THEN sel
    ELSE RunListeners(HandleNodeClick(sel, Head(ls), nodeId, label), Tail(ls), nodeId, label)

-----------------------------------------------------------------------------
(* App and DiagramRenderer.  A value that may be null or undefined is a    *)
(* sequence of length 0 (null) or 1.                                       *)

MaxGenerations == 2
MaxListeners == 3
MaxRenders == 2

Themes == {"obsidian", "galaxy"}

GithubCom == <<"g","i","t","h","u","b",".","c","o","m">>
Https == <<"h","t","t","p","s",":","/","/">>

\* githubService.ts 9-26; new URL is modelled for texts scheme://host/path
parseGitHubUrl(url) ==
    LET cleanUrl == Trim(url)
        halves == Split(cleanUrl, "/")
        full == IF StartsWith(cleanUrl, <<"h","t","t","p">>) THEN cleanUrl
                ELSE Https \o cleanUrl
        scheme == IF StartsWith(full, Https) THEN Len(Https)
                  ELSE IF StartsWith(full, <<"h","t","t","p",":","/","/">>) THEN 7 ELSE 0
        rest == Split(SubSeq(full, scheme + 1, Len(full)), "/")
        hostname == rest[1]
        parts == SelectSeq(Tail(rest), LAMBDA x : x # <<>>)
    IN  IF Len(halves) = 2 /\ ~Includes(cleanUrl, <<".">>)
           THEN <<[owner |-> halves[1], repo |-> halves[2]]>>
        ELSE IF scheme = 0 \/ hostname = <<>> \/ \E i \in 1..Len(hostname) : hostname[i] \in WS
           THEN <<>>
        ELSE IF ~Includes(hostname, GithubCom) THEN <<>>
        ELSE IF Len(parts) < 2 THEN <<>>
        ELSE <<[owner |-> parts[1], repo |-> parts[2]]>>

\* what the user sends: free text and an owner/repo reference
Prompts == { <<"a">>, <<"o","/","r">> }

\* the diagram texts of the model's responses
RawAB == <<"A"," ","-","-",">"," ","B">>
RawAx == <<"A","[","x","]">>

\* the parsed model response of generateArchitecture: mermaidCode, nodeDetails
Responses ==
    { [raw |-> RawAB, nodeDetails |-> <<RecA>>],
      [raw |-> RawAB, nodeDetails |-> <<>>],
      [raw |-> RawAx, nodeDetails |-> <<RecX>>],
      [raw |-> <<>>, nodeDetails |-> <<>>] }

\* generateArchitecture line 178, once per response text
CleanedCode == [r \in {RawAB, RawAx, <<>>} |-> cleanMermaidCode(r)]

\* the .node elements mermaid.render draws for a diagram code
NodesOf(code) ==
    IF code = CleanedCode[RawAB] THEN {ElA, ElB}
    ELSE IF code = CleanedCode[RawAx] THEN {ElX}
    ELSE {}

\* what the user may type besides: free text with a slash, a lone slash, a
\* GitHub address without its scheme, an address of another host
TypedPrompts ==
    Prompts \cup
    { <<"a"," ","c","/","s">>, <<"/">>, GithubCom \o <<"/","o","/","r">>,
      <<"x",".","i","o","/","o","/","r">>, GithubCom \o <<"/","o">> }

\* parseGitHubUrl, once per prompt
githubMetaOf == [p \in TypedPrompts |-> parseGitHubUrl(p)]

InitNormalizerIdle ==
    /\ raw = <<>>
    /\ cleaned = <<>>
    /\ recleaned = <<>>
    /\ cpc = "idle"
    /\ answer = <<>>

Init == InitNormalizerIdle /\ InitApp /\ InitRenderer /\ lastClick = <<>>

Message(sender, text, prompt, code, details, hasDetails, isError) ==
    [id |-> Len(messages) + 1, sender |-> sender, text |-> text, prompt |-> prompt,
     diagramCode |-> code, nodeDetails |-> details, hasDetails |-> hasDetails,
     isError |-> isError]

Remove(seq, i) == SubSeq(seq, 1, i - 1) \o SubSeq(seq, i + 1, Len(seq))

\* What DiagramRenderer does when App has rendered again with the props
\* code and onNodeClick (closing over details): the listener effect of lines
\* 232-249 adds a listener to the nodes of the mounted SVG and removes none;
\* the render effect of lines 212-230 starts a render when code changed.
AfterAppRender(code, details) ==
    LET mounted == ~error /\ svgContent # <<>>
        added == IF mounted THEN Append(listeners, details) ELSE <<>>
    IN  /\ Len(added) <= MaxListeners
        /\ listeners' = added
        /\ IF code # currentDiagramCode /\ code # <<>>
              THEN /\ Len(renders) < MaxRenders
                   /\ isRendering' = TRUE
                   /\ error' = FALSE
                   /\ renders' = Append(renders, [code |-> code, theme |-> theme])
              ELSE UNCHANGED <<isRendering, error, renders>>
        /\ UNCHANGED <<svgContent, theme>>

\* React renders App again only when a state setter changed a value
Rerender ==
    IF appVars' # appVars
       THEN AfterAppRender(currentDiagramCode', currentNodeDetails')
       ELSE UNCHANGED rendererVars

Idle == UNCHANGED cleanVars /\ lastClick' = <<>>

\* the controls stay enabled while a request is outstanding
SendAlwaysEnabled == TRUE

\* ChatInterface 480, 549, 601, 617: the presets, the textarea and the send
\* button are disabled or hidden while isLoading
SendEnabled == ~isLoading

\* handleSendMessage up to its first await (App.tsx 32-61, 81).  The
\* textarea, the send button and the presets are disabled or hidden while
\* isLoading (ChatInterface 480, 549, 601, 617).
Send(prompt) ==
    LET githubMeta == githubMetaOf[prompt]
        userMsg == Message("user", "prompt", prompt, <<>>, <<>>, FALSE, FALSE)
        analyzingMsg == [Message("ai", "exploring", <<>>, <<>>, <<>>, FALSE, FALSE)
                            EXCEPT !.id = Len(messages) + 2]
    IN  /\ SendEnabled
        /\ Len(SelectSeq(messages, LAMBDA m : m.sender = "user")) < MaxGenerations
        /\ Trim(prompt) # <<>>
        /\ messages' = IF githubMeta # <<>> THEN messages \o <<userMsg, analyzingMsg>>
                                            ELSE Append(messages, userMsg)
        /\ isLoading' = TRUE
        /\ calls' = Append(calls,
                [pc |-> IF githubMeta # <<>> THEN "fetchRepoContext" ELSE "generateArchitecture",
                 finalInput |-> prompt,
                 analyzingId |-> IF githubMeta # <<>> THEN analyzingMsg.id ELSE 0])
        /\ UNCHANGED <<currentDiagramCode, currentNodeDetails, diagramVersions,
                       showHistory, selectedNode, activeElementId>>
        /\ Rerender
        /\ Idle

\* isError dropped: the failure is reported like any AI message
PlainMessage(text) == Message("ai", text, <<>>, <<>>, <<>>, FALSE, FALSE)

\* App.tsx 69-75, 109-115: the message of a failed request
ErrorMessage(text) == Message("ai", text, <<>>, <<>>, <<>>, FALSE, TRUE)

\* setIsLoading(false) dropped: isLoading stays as the request left it
LoadingKept == isLoading

\* App.tsx 76, 117: setIsLoading(false) where the request ends
LoadingAfterRequest == FALSE

\* fetchRepoContext resolves (App.tsx 61-67, 81)
FetchResolved(c) ==
    /\ calls[c].pc = "fetchRepoContext"
    /\ messages' = [i \in 1..Len(messages) |->
                       IF messages[i].id = calls[c].analyzingId
                          THEN [messages[i] EXCEPT !.text = "analyzed"]
                          ELSE messages[i]]
    /\ calls' = [calls EXCEPT ![c].pc = "generateArchitecture"]
    /\ UNCHANGED <<isLoading, currentDiagramCode, currentNodeDetails, diagramVersions,
                   showHistory, selectedNode, activeElementId>>
    /\ Rerender
    /\ Idle

\* fetchRepoContext rejects (App.tsx 68-78)
FetchRejected(c) ==
    /\ calls[c].pc = "fetchRepoContext"
    /\ messages' = Append(messages,
                      ErrorMessage("GitHub Sync Failed"))
    /\ isLoading' = LoadingAfterRequest
    /\ calls' = Remove(calls, c)
    /\ UNCHANGED <<currentDiagramCode, currentNodeDetails, diagramVersions,
                   showHistory, selectedNode, activeElementId>>
    /\ Rerender
    /\ Idle

\* the updater of line 100 with the version lost: the new version replaces
\* the history
ReplaceVersions(prev, code, details, prompt) ==
    <<[code |-> code, nodeDetails |-> details, prompt |-> prompt]>>

\* App.tsx 100-106: prev => [...prev, {code, nodeDetails, prompt: finalInput}]
AppendVersion(prev, code, details, prompt) ==
    Append(prev, [code |-> code, nodeDetails |-> details, prompt |-> prompt])

\* generateArchitecture resolves with the parsed response r
\* (geminiService.ts 173-180, App.tsx 81-107, 116-118)
GenerateResolved(c, r) ==
    LET mermaidCode == CleanedCode[r.raw]
        nodeDetails == r.nodeDetails
        aiMsg == Message("ai", "explanation", <<>>, mermaidCode, nodeDetails, TRUE, FALSE)
    IN  /\ calls[c].pc = "generateArchitecture"
        /\ messages' = Append(messages, aiMsg)
        /\ IF mermaidCode # <<>>
              THEN /\ currentDiagramCode' = mermaidCode
                   /\ currentNodeDetails' = nodeDetails
                   /\ diagramVersions' = AppendVersion(diagramVersions, mermaidCode,
                                                       nodeDetails, calls[c].finalInput)
              ELSE UNCHANGED <<currentDiagramCode, currentNodeDetails, diagramVersions>>
        /\ isLoading' = LoadingAfterRequest
        /\ calls' = Remove(calls, c)
        /\ UNCHANGED <<showHistory, selectedNode, activeElementId>>
        /\ Rerender
        /\ Idle

\* generateArchitecture rejects (geminiService.ts 182-185, App.tsx 108-118)
GenerateRejected(c) ==
    /\ calls[c].pc = "generateArchitecture"
    /\ messages' = Append(messages,
                      ErrorMessage("reasoning error"))
    /\ isLoading' = LoadingAfterRequest
    /\ calls' = Remove(calls, c)
    /\ UNCHANGED <<currentDiagramCode, currentNodeDetails, diagramVersions,
                   showHistory, selectedNode, activeElementId>>
    /\ Rerender
    /\ Idle

\* setCurrentNodeDetails of onViewDiagram dropped: only the code is swapped
ViewDiagramDetailsCodeOnly(code) == currentNodeDetails

\* App.tsx 163-164: the records of the first message carrying the code
ViewDiagramDetails(code) ==
    LET found == SelectSeq(messages, LAMBDA m : m.diagramCode = code)
    IN  IF found # <<>> /\ found[1].hasDetails THEN found[1].nodeDetails
        ELSE currentNodeDetails

\* 'Explore Diagram' of message i (ChatInterface 517-519, App.tsx 161-165)
ViewDiagram(i) ==
    /\ messages[i].sender = "ai" /\ messages[i].diagramCode # <<>>
    /\ currentDiagramCode' = messages[i].diagramCode
    /\ currentNodeDetails' = ViewDiagramDetails(messages[i].diagramCode)
    /\ UNCHANGED <<messages, isLoading, diagramVersions, showHistory, selectedNode,
                   activeElementId, calls>>
    /\ Rerender
    /\ Idle

\* setCurrentNodeDetails of handleVersionSelect dropped: the records stay
VersionDetailsKept(version) == currentNodeDetails

\* App.tsx 123: the records handleVersionSelect makes current
VersionDetails(version) == version.nodeDetails

\* handleVersionSelect (App.tsx 121-126), from the open history panel
VersionSelect(v) ==
    /\ showHistory
    /\ currentDiagramCode' = diagramVersions[v].code
    /\ currentNodeDetails' = VersionDetails(diagramVersions[v])
    /\ selectedNode' = <<>>
    /\ activeElementId' = <<>>
    /\ UNCHANGED <<messages, isLoading, diagramVersions, showHistory, calls>>
    /\ Rerender
    /\ Idle

\* the HISTORY button (App.tsx 181)
ToggleHistory ==
    /\ showHistory' = ~showHistory
    /\ selectedNode' = <<>>
    /\ activeElementId' = <<>>
    /\ UNCHANGED <<messages, isLoading, currentDiagramCode, currentNodeDetails,
                   diagramVersions, calls>>
    /\ Rerender
    /\ Idle

\* HistoryPanel onClose (App.tsx 206)
CloseHistory ==
    /\ showHistory
    /\ showHistory' = FALSE
    /\ UNCHANGED <<messages, isLoading, currentDiagramCode, currentNodeDetails,
                   diagramVersions, selectedNode, activeElementId, calls>>
    /\ Rerender
    /\ Idle

\* NodeInspectorPanel onClose (App.tsx 211); the panel exists while a node
\* is selected (NodeInspectorPanel.tsx 11)
CloseInspector ==
    /\ selectedNode # <<>>
    /\ selectedNode' = <<>>
    /\ activeElementId' = <<>>
    /\ UNCHANGED <<messages, isLoading, currentDiagramCode, currentNodeDetails,
                   diagramVersions, showHistory, calls>>
    /\ Rerender
    /\ Idle

\* the nodes the user can click (DiagramRenderer.tsx 463-473)
ShownNodes ==
    IF svgContent = <<>> \/ error THEN {} ELSE NodesOf(svgContent[1].code)

\* a click on node e of the shown SVG (DiagramRenderer.tsx 239-246): every
\* listener added to the node runs its own handleNodeClick
ClickElement(e) ==
    LET nodeId == nodeIdOf[e.fullId]
        before == [node |-> selectedNode, element |-> activeElementId,
                   history |-> showHistory]
        after == RunListeners(before, listeners, nodeId, e.label)
    IN  /\ svgContent # <<>> /\ ~error
        /\ selectedNode' = after.node
        /\ activeElementId' = after.element
        /\ showHistory' = after.history
        /\ UNCHANGED <<messages, isLoading, currentDiagramCode, currentNodeDetails,
                       diagramVersions, calls>>
        /\ Rerender
        /\ lastClick' = << [element |-> e, nodeId |-> nodeId, label |-> e.label,
                            searched |-> listeners,
                            threw |-> \E i \in 1..Len(listeners) :
                                         Throws(listeners[i], nodeId, e.label),
                            before |-> before, svg |-> svgContent[1],
                            code |-> currentDiagramCode,
                            details |-> currentNodeDetails] >>
        /\ UNCHANGED cleanVars

\* typing in the chat box (App.tsx 15, 157; ChatInterface 601): setInput
\* renders App again, which hands DiagramRenderer a new handleNodeClick
EditInput ==
    /\ ~isLoading
    /\ UNCHANGED appVars
    /\ AfterAppRender(currentDiagramCode, currentNodeDetails)
    /\ Idle

\* the theme menu (DiagramRenderer.tsx 425) and the render effect it triggers
SetTheme(t) ==
    /\ t # theme
    /\ theme' = t
    /\ IF currentDiagramCode # <<>>
          THEN /\ Len(renders) < MaxRenders
               /\ isRendering' = TRUE
               /\ error' = FALSE
               /\ renders' = Append(renders, [code |-> currentDiagramCode, theme |-> t])
          ELSE UNCHANGED <<isRendering, error, renders>>
    /\ UNCHANGED <<svgContent, listeners>>
    /\ UNCHANGED appVars
    /\ Idle

\* mermaid.render resolves (DiagramRenderer.tsx 220-221, 226); mermaid runs
\* its render calls one after the other.  The new SVG replaces the nodes,
\* and the listener effect adds the current onNodeClick to the new ones.
RenderResolved ==
    /\ renders # <<>>
    /\ svgContent' = <<Head(renders)>>
    /\ isRendering' = FALSE
    /\ renders' = Tail(renders)
    /\ listeners' = IF error THEN <<>> ELSE <<currentNodeDetails>>
    /\ UNCHANGED <<error, theme>>
    /\ UNCHANGED appVars
    /\ Idle

\* setError of the catch block dropped: the error state stays as it was
ErrorKept == error

\* DiagramRenderer.tsx 224: setError("Diagram Syntax Error.")
DiagramSyntaxError == TRUE

\* mermaid.render rejects (DiagramRenderer.tsx 222-226): the error replaces
\* the SVG wrapper
RenderRejected ==
    /\ renders # <<>>
    /\ error' = DiagramSyntaxError
    /\ isRendering' = FALSE
    /\ renders' = Tail(renders)
    /\ listeners' = <<>>
    /\ UNCHANGED <<svgContent, theme>>
    /\ UNCHANGED appVars
    /\ Idle

Next ==
    \/ \E p \in Prompts : Send(p)
    \/ \E c \in 1..Len(calls) : FetchResolved(c)
    \/ \E c \in 1..Len(calls) : FetchRejected(c)
    \/ \E c \in 1..Len(calls), r \in Responses : GenerateResolved(c, r)
    \/ \E c \in 1..Len(calls) : GenerateRejected(c)
    \/ \E i \in 1..Len(messages) : ViewDiagram(i)
    \/ \E v \in 1..Len(diagramVersions) : VersionSelect(v)
    \/ ToggleHistory
    \/ CloseHistory
    \/ CloseInspector
    \/ \E e \in ShownNodes : ClickElement(e)
    \/ EditInput
    \/ \E t \in Themes : SetTheme(t)
    \/ RenderResolved
    \/ RenderRejected

Spec == Init /\ [][Next]_vars

\* the handlers that write currentDiagramCode and currentNodeDetails, with
\* what enables them and what completes the renders they start
NextPairing ==
    \/ \E p \in Prompts : Send(p)
    \/ \E c \in 1..Len(calls) : FetchResolved(c)
    \/ \E c \in 1..Len(calls) : FetchRejected(c)
    \/ \E c \in 1..Len(calls), r \in Responses : GenerateResolved(c, r)
    \/ \E c \in 1..Len(calls) : GenerateRejected(c)
    \/ \E i \in 1..Len(messages) : ViewDiagram(i)
    \/ \E v \in 1..Len(diagramVersions) : VersionSelect(v)
    \/ ToggleHistory
    \/ RenderResolved
    \/ RenderRejected

SpecPairing == Init /\ [][NextPairing]_vars

\* handleSendMessage over everything the user may type, with what completes
\* the requests it starts
NextTyped ==
    \/ \E p \in TypedPrompts : Send(p)
    \/ \E c \in 1..Len(calls) : FetchResolved(c)
    \/ \E c \in 1..Len(calls) : FetchRejected(c)
    \/ \E c \in 1..Len(calls), r \in Responses : GenerateResolved(c, r)
    \/ \E c \in 1..Len(calls) : GenerateRejected(c)
    \/ RenderResolved
    \/ RenderRejected

SpecTyped == Init /\ [][NextTyped]_vars

\* the requests of handleSendMessage from their start to their end, with
\* the renders they cause and the clicks that select a node meanwhile
NextRequests ==
    \/ \E p \in Prompts : Send(p)
    \/ \E c \in 1..Len(calls) : FetchResolved(c)
    \/ \E c \in 1..Len(calls) : FetchRejected(c)
    \/ \E c \in 1..Len(calls), r \in Responses : GenerateResolved(c, r)
    \/ \E c \in 1..Len(calls) : GenerateRejected(c)
    \/ \E e \in ShownNodes : ClickElement(e)
    \/ RenderResolved
    \/ RenderRejected

SpecRequests == Init /\ [][NextRequests]_vars

\* everything that writes selectedNode and activeElementId (App.tsx 124-125,
\* 146-147, 181, 211), over the diagrams of free-text generations
NextSelection ==
    \/ \E p \in Prompts : githubMetaOf[p] = <<>> /\ Send(p)
    \/ \E c \in 1..Len(calls), r \in Responses : GenerateResolved(c, r)
    \/ \E c \in 1..Len(calls) : GenerateRejected(c)
    \/ \E e \in ShownNodes : ClickElement(e)
    \/ \E v \in 1..Len(diagramVersions) : VersionSelect(v)
    \/ ToggleHistory
    \/ CloseInspector
    \/ RenderResolved
    \/ RenderRejected

SpecSelection == Init /\ [][NextSelection]_vars

\* the requests alone.  Every App render adds a listener to a mounted SVG
\* and a request renders App three times, so a request is started only
\* where MaxListeners leaves room for the two renders that end it.
NextLoading ==
    \/ \E p \in Prompts : Send(p) /\ Len(listeners') + 2 <= MaxListeners
    \/ \E c \in 1..Len(calls) : FetchResolved(c)
    \/ \E c \in 1..Len(calls) : FetchRejected(c)
    \/ \E c \in 1..Len(calls), r \in Responses : GenerateResolved(c, r)
    \/ \E c \in 1..Len(calls) : GenerateRejected(c)
    \/ RenderResolved
    \/ RenderRejected

\* fetchRepoContext and generateArchitecture return or throw: the promise
\* an outstanding request awaits is settled
SpecLoading ==
    /\ Init
    /\ [][NextLoading]_vars
    /\ WF_vars(\E c \in 1..Len(calls) :
                  \/ FetchResolved(c)
                  \/ FetchRejected(c)
                  \/ GenerateRejected(c)
                  \/ \E r \in Responses : GenerateResolved(c, r))

-----------------------------------------------------------------------------
(* The resolver under clicks: one generation has been rendered, with one   *)
(* of the record lists below, and the user clicks elements of any shape.   *)

ResolveDetails ==
    { <<RecUsers>>,
      <<RecDatabase, RecUsers>>,
      <<RecUsers, RecDatabase>>,
      <<RecApi, RecGate>>,
      <<RecSymbols>>,
      <<RecQuoted, RecA>>,
      <<>> }

\* the state Send, GenerateResolved and RenderResolved lead to from Init
\* when the response holds the records details
RenderedOnce(details) ==
        LET code == CleanedCode[RawAB]
            prompt == <<"a">>
        IN  /\ InitNormalizerIdle
            /\ messages =
                  << [id |-> 1, sender |-> "user", text |-> "prompt", prompt |-> prompt,
                      diagramCode |-> <<>>, nodeDetails |-> <<>>, hasDetails |-> FALSE,
                      isError |-> FALSE],
                     [id |-> 2, sender |-> "ai", text |-> "explanation", prompt |-> <<>>,
                      diagramCode |-> code, nodeDetails |-> details, hasDetails |-> TRUE,
                      isError |-> FALSE] >>
            /\ isLoading = FALSE
            /\ currentDiagramCode = code
            /\ currentNodeDetails = details
            /\ diagramVersions = <<[code |-> code, nodeDetails |-> details, prompt |-> prompt]>>
            /\ showHistory = FALSE
            /\ selectedNode = <<>>
            /\ activeElementId = <<>>
            /\ calls = <<>>
            /\ svgContent = <<[code |-> code, theme |-> "obsidian"]>>
            /\ error = FALSE
            /\ isRendering = FALSE
            /\ theme = "obsidian"
            /\ renders = <<>>
            /\ listeners = <<details>>
            /\ lastClick = <<>>

InitResolve == \E details \in ResolveDetails : RenderedOnce(details)

NextResolve ==
    \/ \E e \in AllElements : ClickElement(e)
    \/ CloseInspector
    \/ ToggleHistory
    \/ EditInput

SpecResolve == InitResolve /\ [][NextResolve]_vars

\* records as JSON.parse delivers them: the response schema names id and
\* label as required, the code checks neither
DeliveredDetails ==
    { <<[label |-> <<"A">>]>>,
      <<[id |-> <<"A">>]>>,
      <<RecA, [label |-> <<"A">>]>>,
      <<[id |-> <<"A">>], RecA>>,
      <<RecA>>,
      <<>> }

InitDelivered == \E details \in DeliveredDetails : RenderedOnce(details)

SpecDelivered == InitDelivered /\ [][NextResolve]_vars

-----------------------------------------------------------------------------
(* The normalizer applied to control statements: a line that begins with a *)
(* reserved word of Mermaid, alone or under a direction declaration.       *)

ReservedWords ==
    { <<"s","u","b","g","r","a","p","h">>, <<"c","l","a","s","s">>,
      <<"c","l","a","s","s","D","e","f">>, <<"s","t","y","l","e">>,
      <<"c","l","i","c","k">>, <<"d","i","r","e","c","t","i","o","n">> }

\* what follows the reserved word on its line
StatementTails ==
    { <<" ","T","D","D">>, <<" ","L","R","_","z","o","n","e">>, <<" ","A">>,
      <<" ","T","B">>, <<"[","x","]">>, <<" ","A","[","x","]">> }

\* the diagram text of a response: the statement, alone or under graph TD
StatementTexts ==
    { head \o word \o tail :
         head \in {<<>>, kwGraph \o <<" ","T","D","\n">>},
         word \in ReservedWords, tail \in StatementTails }

InitStatements ==
    /\ raw \in StatementTexts
    /\ cleaned = <<>>
    /\ recleaned = <<>>
    /\ cpc = "start"
    /\ answer = <<>>
    /\ InitApp /\ InitRenderer /\ lastClick = <<>>

SpecStatements == InitStatements /\ [][NextClean]_vars

-----------------------------------------------------------------------------
(* generateArchitecture, text-response version (geminiService.ts 292-365): *)
(* the model answers with prose that may hold a fenced diagram block       *)

FenceOpen == <<Backtick, Backtick, Backtick, "m","e","r","m","a","i","d">>
FenceClose == <<Backtick, Backtick, Backtick>>

\* line 337: the word mermaid between three grave accents and ([\s\S]*?),
\* then three grave accents
ReFence == Cat(<<Lit(FenceOpen), Grp(1, LazyStar(Ch(Alphabet))), Lit(FenceClose)>>)

\* line 297: /^\s*%%/
ReCommentLine == Cat(<<Bol, Star(Ch(WS)), Lit(CommentMark)>>)

\* String.prototype.indexOf, counted from 1; 0 when sub does not occur
IndexOf(s, sub) ==
    IF Includes(s, sub)
       THEN CHOOSE i \in 1..(Len(s) + 1) :
               /\ SubSeq(s, i, i + Len(sub) - 1) = sub
               /\ \A h \in 1..(i - 1) : SubSeq(s, h, h + Len(sub) - 1) # sub
       ELSE 0

\* s.replace(sub, "") with a string pattern: the first occurrence goes
RemoveFirst(s, sub) ==
    IF IndexOf(s, sub) = 0 THEN s
    ELSE SubSeq(s, 1, IndexOf(s, sub) - 1)
            \o SubSeq(s, IndexOf(s, sub) + Len(sub), Len(s))

\* lines 296-304: a comment line stays, an inline comment is cut off
StripInlineComment(line) ==
    IF Test(ReCommentLine, line) THEN line
    ELSE IF IndexOf(line, CommentMark) # 0
            THEN Trim(SubSeq(line, 1, IndexOf(line, CommentMark) - 1))
    ELSE line

StripLines(lines) == [i \in 1..Len(lines) |-> StripInlineComment(lines[i])]

\* cleanMermaidCode of lines 292-307
cleanMermaidCodeText(code) == Join(StripLines(Split(code, "\n")), "\n")

\* line 349: the text mentions a diagram keyword
LooksLikeCode(text) ==
    \/ Includes(text, <<"g","r","a","p","h"," ">>)
    \/ Includes(text, <<"s","e","q","u","e","n","c","e","D","i","a","g","r","a","m">>)
    \/ Includes(text, <<"s","u","b","g","r","a","p","h"," ">>)

\* lines 348-356: the fallback, then the repair
Answer(explanation, mermaidCode, text) ==
    [explanation |-> explanation,
     mermaidCode |-> cleanMermaidCodeText(IF mermaidCode = <<>> /\ LooksLikeCode(text)
                                             THEN text ELSE mermaidCode)]

\* lines 339-346 for the result m of text.match
FromFence(m, text) ==
    IF m.ok /\ m.caps[1] # <<>>
       THEN Answer(Trim(RemoveFirst(text, SubSeq(text, m.from, m.to - 1))),
                   Trim(m.caps[1]), text)
       ELSE Answer(text, <<>>, text)

\* generateArchitecture of lines 309-365 for the response text
generateArchitectureText(text) == FromFence(Find(ReFence, text, 1), text)

MaxTextFrags == 4

TextFrags ==
    << <<"S","e","e"," ">>,                                   \* prose
       <<"a"," ","g","r","a","p","h"," ">>,                   \* prose with a keyword
       FenceOpen \o <<"\n">>,
       FenceClose,
       <<"f","l","o","w","c","h","a","r","t"," ","T","D","\n","A","-","-",">","B","\n">>,
       <<"A"," ","%","%"," ","c","\n">>,                      \* an inline comment
       <<"\n">>,
       <<" ","e","n","d",".">> >>                             \* prose

RECURSIVE ConcatText(_)
ConcatText(fs) == IF fs = <<>> THEN <<>> ELSE TextFrags[Head(fs)] \o ConcatText(Tail(fs))

\* response.text of line 334
Texts ==
    { ConcatText(fs) : fs \in UNION { [1..n -> 1..Len(TextFrags)] : n \in 0..MaxTextFrags } }

InitText ==
    /\ raw \in Texts
    /\ cleaned = <<>>
    /\ recleaned = <<>>
    /\ cpc = "text"
    /\ answer = <<>>
    /\ InitApp /\ InitRenderer /\ lastClick = <<>>

\* generateArchitecture returns (lines 353-356)
AnswerText ==
    /\ cpc = "text"
    /\ answer' = <<generateArchitectureText(raw)>>
    /\ cpc' = "answered"
    /\ UNCHANGED <<raw, cleaned, recleaned, appVars, rendererVars, lastClick>>

NextText == AnswerText

SpecText == InitText /\ [][NextText]_vars

-----------------------------------------------------------------------------
(* Properties of the normalizer *)

OutLines == Split(cleaned, "\n")
Normalized == cpc # "start"

\* C1: normalization is idempotent: cleanMermaidCode(cleanMermaidCode(x))
\* equals cleanMermaidCode(x) for every input text x.
C1_Idempotent == cpc = "twice" => recleaned = cleaned

\* a direction declaration: graph or flowchart, as a word of its own,
\* followed by a direction variant
ReDeclaration ==
    Cat(<<Alt(<<Lit(kwGraph), Lit(kwFlowchart)>>), Plus(Ch(WS)),
          Alt(<<Lit(<<"T","D">>), Lit(<<"T","B">>), Lit(<<"L","R">>),
                Lit(<<"R","L">>), Lit(<<"B","T">>)>>)>>)
Declarations(text) ==
    SelectSeq(AllMatches(ReDeclaration, text, 1),
              LAMBDA m : m.from = 1 \/ text[m.from - 1] \notin IdChar)

\* C2: whatever direction declarations the input holds (none, one, several,
\* any variant), the output holds exactly one, and it is flowchart LR.
C2_SingleDirection ==
    Normalized =>
        LET ds == Declarations(cleaned)
        IN  /\ Len(ds) = 1
            /\ SubSeq(cleaned, ds[1].from, ds[1].to - 1) = FlowchartLR

\* an edge operator of the claim (-->, ---, -.->, ==>), an optional |label|,
\* then the end of the line
ReNoDestination ==
    Cat(<<Alt(<<Lit(<<"-","-",">">>), Lit(<<"-","-","-">>),
                Lit(<<"-",".","-",">">>), Lit(<<"=","=",">">>)>>),
          EdgeLabel, Star(Ch(WS)), Eol>>)

\* C3: no line of the output ends with an edge operator that has no
\* destination node.
C3_NoDanglingEdge ==
    Normalized =>
        \A i \in 1..Len(OutLines) :
            StartsWith(OutLines[i], CommentMark) \/ ~Test(ReNoDestination, OutLines[i])

\* the text of a label: no delimiter of a shape and no line break
LabelText == Alphabet \ {"[", "]", "(", ")", "{", "}", "/", "\n"}
Labelled(open, close) == Cat(<<Lit(open), Grp(2, Star(Ch(LabelText))), Lit(close)>>)

\* a node id followed by one of the six node shapes; group 2 is the label
ReNodeShape ==
    Cat(<<Grp(1, Plus(Ch(IdChar))),
          Alt(<<Labelled(<<"(","[">>, <<"]",")">>), Labelled(<<"[","(">>, <<")","]">>),
                Labelled(<<"[","/">>, <<"/","]">>), Labelled(<<"{","{">>, <<"}","}">>),
                Labelled(<<"[">>, <<"]">>), Labelled(<<"{">>, <<"}">>)>>)>>)

\* "..." with no double quote between the two
CanonicalLabel(l) ==
    /\ Len(l) >= 2
    /\ l[1] = "\"" /\ l[Len(l)] = "\""
    /\ \A i \in 2..(Len(l) - 1) : l[i] # "\""

NodeShapes(text) ==
    SelectSeq(AllMatches(ReNodeShape, text, 1),
              LAMBDA m : ToLowerCase(m.caps[1]) \notin BoxKeywords)

\* C4: in the output every node-shape occurrence (box, cylinder, diamond,
\* stadium, parallelogram, hexagon) has its label in exactly one pair of
\* double quotes, with no double quote inside.
C4_LabelsQuoted ==
    Normalized =>
        LET shapes == NodeShapes(cleaned)
        IN  \A i \in 1..Len(shapes) : CanonicalLabel(shapes[i].caps[2])

\* the comment marker somewhere after the first character of the line
HasInlineComment(line) ==
    \E i \in 2..(Len(line) - 1) : line[i] = "%" /\ line[i + 1] = "%"

\* C5: no line of the output holds the comment marker %% anywhere but at
\* its start: an inline comment is cut off with the marker.
C5_NoInlineComment ==
    Normalized => \A i \in 1..Len(OutLines) : ~HasInlineComment(OutLines[i])


-----------------------------------------------------------------------------
(* Properties of node resolution and of the diagram / record pairing *)

\* lower-cased, with every character outside a-z and 0-9 removed
Normal(s) == SelectSeq(ToLowerCase(s), LAMBDA c : c \in Lower \cup Digit)

Contains(s, part) ==
    \E i \in 1..(Len(s) + 1), j \in 0..Len(s) : SubSeq(s, i, j) = part

\* id equal, label equal, or one label inside the other with the inner one
\* longer than 3 characters
RecordAnswers(d, nodeId, label) ==
    \/ Normal(d.id) = Normal(nodeId)
    \/ Normal(d.label) = Normal(label)
    \/ (Contains(Normal(label), Normal(d.label)) /\ Len(Normal(d.label)) > 3)
    \/ (Contains(Normal(d.label), Normal(label)) /\ Len(Normal(label)) > 3)

\* the first record of the list that answers the click, as <<d>>, or <<>>
FirstAnswer(details, nodeId, label) ==
    LET at == {i \in 1..Len(details) : RecordAnswers(details[i], nodeId, label)}
    IN  IF at = {} THEN <<>>
        ELSE <<details[CHOOSE i \in at : \A j \in at : i <= j]>>

RECURSIVE Selection(_, _, _, _)
\* the record selected once every handler of the click has run, each over
\* the record list of its own render
Selection(node, searched, nodeId, label) ==
    IF searched = <<>> THEN node
    ELSE LET first == FirstAnswer(Head(searched), nodeId, label)
         IN  Selection(IF first = <<>> THEN node ELSE first, Tail(searched), nodeId, label)

\* C6: handleNodeClick selects the first record, in the order of
\* currentNodeDetails, whose cleaned id equals the cleaned node id, or whose
\* cleaned label equals the cleaned label, or whose cleaned label contains or
\* is contained in the cleaned label with the contained one longer than 3
\* characters; when no record does, it selects nothing (the selection stays).
C6_FirstMatchingRecordSelected ==
    lastClick # <<>> =>
        selectedNode = Selection(lastClick[1].before.node, lastClick[1].searched,
                                 lastClick[1].nodeId, lastClick[1].label)

\* C6 witness: a click that two records answer, the second one by label
\* equality and the first one only by the substring rule; the first is selected
C6_FirstOfTwoSelected ==
    /\ lastClick # <<>>
    /\ lastClick[1].element = ElUserDatabase
    /\ lastClick[1].searched = <<(<<RecDatabase, RecUsers>>)>>
    /\ selectedNode = <<RecDatabase>>

ClickedUserDb ==
    /\ lastClick # <<>>
    /\ lastClick[1].element = ElUserDb
    /\ \A i \in 1..Len(lastClick[1].searched) : lastClick[1].searched[i] = <<RecUsers>>

\* C7 (as the code behaves): with the records [db_users / "User Database"], a
\* click on the element flowchart-userdb-7 labelled "User DB" resolves to no
\* record; the selection stays as it was.
C7_UserDbClickResolvesNothing ==
    ClickedUserDb =>
        /\ selectedNode = lastClick[1].before.node
        /\ activeElementId = lastClick[1].before.element

\* C7 witness: that click, handled with nothing selected before or after
C7_UserDbClickedNothingSelected ==
    /\ ClickedUserDb
    /\ lastClick[1].before.node = <<>>
    /\ selectedNode = <<>>

\* C7 (as stated): with the records [db_users / "User Database"], a click on
\* the element flowchart-userdb-7 labelled "User DB" selects that record.
C7_UserDbClickSelectsUsers ==
    ClickedUserDb => selectedNode = <<RecUsers>>

\* C8: whenever a click triggers resolution, every record list searched was
\* generated in the same response as the code the clicked SVG was rendered
\* from.
C8_SearchedRecordsBelongToShownSvg ==
    lastClick # <<>> =>
        \A i \in 1..Len(lastClick[1].searched) :
            \E k \in 1..Len(messages) :
                /\ messages[k].sender = "ai"
                /\ messages[k].hasDetails
                /\ messages[k].diagramCode = lastClick[1].svg.code
                /\ messages[k].nodeDetails = lastClick[1].searched[i]

\* the (code, nodeDetails) pairs of the generation responses so far
GeneratedPairs ==
    { <<messages[k].diagramCode, messages[k].nodeDetails>> :
         k \in {j \in 1..Len(messages) : messages[j].sender = "ai" /\ messages[j].hasDetails} }

\* C9: (currentDiagramCode, currentNodeDetails) is the initial empty pair or
\* the (code, nodeDetails) pair of one generation response.
C9_PairOfOneGeneration ==
    \/ currentDiagramCode = <<>> /\ currentNodeDetails = <<>>
    \/ <<currentDiagramCode, currentNodeDetails>> \in GeneratedPairs

\* C9 witness: after two generations with different codes and records, the
\* first pair is active again (through history or 'Explore Diagram')
C9_FirstPairActiveAgain ==
    /\ Len(diagramVersions) = 2
    /\ diagramVersions[1].code # diagramVersions[2].code
    /\ diagramVersions[1].nodeDetails # diagramVersions[2].nodeDetails
    /\ currentDiagramCode = diagramVersions[1].code
    /\ currentNodeDetails = diagramVersions[1].nodeDetails

\* C10: after a click that no record of currentNodeDetails answers, no panel
\* is shown: selectedNode is null and no element is highlighted.
C10_NoPanelAfterUnmatchedClick ==
    (/\ lastClick # <<>>
     /\ FirstAnswer(lastClick[1].details, lastClick[1].nodeId, lastClick[1].label) = <<>>)
    => (selectedNode = <<>> /\ activeElementId = <<>>)

-----------------------------------------------------------------------------
(* Properties of the version history *)

\* the step appends the AI message of a generation response
GenerationAnswered ==
    /\ Len(messages') = Len(messages) + 1
    /\ messages'[Len(messages')].sender = "ai"
    /\ messages'[Len(messages')].hasDetails

\* the prompt of the last user message: the one the pending request is for
LastPrompt ==
    LET users == SelectSeq(messages, LAMBDA m : m.sender = "user")
    IN  users[Len(users)].prompt

\* C11: diagramVersions is append-only.  A step that answers a generation
\* with diagram code appends exactly one version, made of the response's
\* code, its nodeDetails and the originating prompt; every other step leaves
\* diagramVersions as it is.  No step removes, reorders or changes a version.
C11_VersionsAppendOnly ==
    [][ LET n == Len(diagramVersions)
            aiMsg == messages'[Len(messages')]
        IN  IF GenerationAnswered /\ aiMsg.diagramCode # <<>>
               THEN diagramVersions' =
                       Append(diagramVersions,
                              [code |-> aiMsg.diagramCode,
                               nodeDetails |-> aiMsg.nodeDetails,
                               prompt |-> LastPrompt])
               ELSE diagramVersions' = diagramVersions ]_vars

\* C11 witness: a second generation has been answered and the version of
\* the first, made for another prompt, is still the first of the history
C11_TwoVersionsKept ==
    /\ Len(diagramVersions) = 2
    /\ diagramVersions[1].prompt # diagramVersions[2].prompt
    /\ \E k \in 1..Len(messages) :
          /\ messages[k].sender = "ai"
          /\ messages[k].diagramCode = diagramVersions[1].code
          /\ messages[k].nodeDetails = diagramVersions[1].nodeDetails
          /\ messages[k].hasDetails

\* C12: selecting a version v of the history makes, in that one step,
\* currentDiagramCode = v.code and currentNodeDetails = v.nodeDetails, and
\* selectedNode and activeElementId null, whatever generations and
\* selections came before; diagramVersions and messages stay as they are.
C12_SelectSwapsPairAndClosesInspector ==
    [][ \A v \in 1..Len(diagramVersions) :
            VersionSelect(v) =>
                /\ currentDiagramCode' = diagramVersions[v].code
                /\ currentNodeDetails' = diagramVersions[v].nodeDetails
                /\ selectedNode' = <<>>
                /\ activeElementId' = <<>>
                /\ diagramVersions' = diagramVersions
                /\ messages' = messages ]_vars

\* C12 witness: with the history open after two generations of different
\* codes and records, the older version is the current pair
C12_OlderVersionSelected ==
    /\ showHistory
    /\ Len(diagramVersions) = 2
    /\ diagramVersions[1].code # diagramVersions[2].code
    /\ diagramVersions[1].nodeDetails # diagramVersions[2].nodeDetails
    /\ currentDiagramCode = diagramVersions[1].code
    /\ currentNodeDetails = diagramVersions[1].nodeDetails
    /\ selectedNode = <<>> /\ activeElementId = <<>>
    /\ ~isLoading

-----------------------------------------------------------------------------
(* Properties of the text-response generateArchitecture *)

\* where the first fence opens in raw (0: nowhere), and where the first
\* closing fence after it starts
OpensAt == IndexOf(raw, FenceOpen)
AfterOpen == SubSeq(raw, OpensAt + Len(FenceOpen), Len(raw))
Fenced == OpensAt # 0 /\ Includes(AfterOpen, FenceClose)
BlockContents == SubSeq(AfterOpen, 1, IndexOf(AfterOpen, FenceClose) - 1)
OutsideBlock ==
    SubSeq(raw, 1, OpensAt - 1)
       \o SubSeq(AfterOpen, IndexOf(AfterOpen, FenceClose) + Len(FenceClose), Len(AfterOpen))

\* C13: for a response text holding a fenced mermaid block, the
\* explanation returned is the text without that block, trimmed, and the
\* mermaidCode returned is the repaired contents of the block and nothing
\* of the prose around it.
C13_FenceSplitsProseFromCode ==
    (answer # <<>> /\ Fenced) =>
        /\ answer[1].explanation = Trim(OutsideBlock)
        /\ answer[1].mermaidCode = cleanMermaidCodeText(Trim(BlockContents))

-----------------------------------------------------------------------------
(* Properties of a generation without a diagram *)

\* a line that draws nothing: blank, or a direction declaration
DrawsNothing(line) ==
    Trim(line) \in {<<>>, FlowchartLR, kwGraph \o <<" ","T","D">>}

\* the code holds no node and no edge
NoDiagramContent(code) ==
    \A i \in 1..Len(Split(code, "\n")) : DrawsNothing(Split(code, "\n")[i])

\* C14: a response whose diagram text is empty or holds nothing of a
\* diagram produces no diagram source: the mermaidCode returned for it is
\* empty, it never becomes the active diagram, and no version is made of it.
C14_NoSourceWithoutContent ==
    /\ \A k \in 1..Len(messages) :
          (messages[k].hasDetails /\ NoDiagramContent(messages[k].diagramCode))
             => messages[k].diagramCode = <<>>
    /\ \A v \in 1..Len(diagramVersions) : ~NoDiagramContent(diagramVersions[v].code)
    /\ (currentDiagramCode # <<>> => ~NoDiagramContent(currentDiagramCode))

-----------------------------------------------------------------------------
(* Properties of a rejected render *)

\* C15: when mermaid rejects the code, DiagramRenderer holds the error
\* 'Diagram Syntax Error.' and shows no diagram node; the AI message of the
\* generation the code came from stays in the transcript, and messages,
\* diagramVersions, currentDiagramCode and currentNodeDetails are the same
\* after the rejection as before.
C15_RejectionShowsErrorKeepsTranscript ==
    [][ RenderRejected =>
           /\ error'
           /\ ShownNodes' = {}
           /\ messages' = messages
           /\ diagramVersions' = diagramVersions
           /\ currentDiagramCode' = currentDiagramCode
           /\ currentNodeDetails' = currentNodeDetails
           /\ \E k \in 1..Len(messages') :
                 /\ messages'[k].sender = "ai"
                 /\ messages'[k].text = "explanation"
                 /\ messages'[k].diagramCode = Head(renders).code ]_vars

\* C15 witness: a diagram was shown, the render of the next generation's
\* code was rejected, and the transcript holds both generations
C15_SecondRenderRejected ==
    /\ error
    /\ renders = <<>>
    /\ svgContent # <<>>
    /\ Len(diagramVersions) = 2
    /\ svgContent[1].code = diagramVersions[1].code
    /\ currentDiagramCode = diagramVersions[2].code
    /\ currentDiagramCode # svgContent[1].code
    /\ Len(SelectSeq(messages, LAMBDA m : m.text = "explanation")) = 2

-----------------------------------------------------------------------------
(* Properties of resolution over the records as delivered *)

\* C16: whatever record list the response delivered (records without id or
\* label and the empty list included) and whatever the element's id and
\* label, handleNodeClick does not throw: each click ends with a record
\* selected or with none.
C16_ResolutionNeverThrows ==
    lastClick # <<>> => ~lastClick[1].threw

-----------------------------------------------------------------------------
(* Further properties of the normalizer *)

\* C17: for every input the first line of the output is the declaration
\* flowchart LR and nothing else, whether the input had no declaration, had
\* one further down, or began with a comment line.
C17_FirstLineIsDeclaration ==
    Normalized => OutLines[1] = FlowchartLR

Alnum == Lower \cup Upper \cup Digit

\* the text rest, which follows a closing delimiter, is a description: it
\* begins with a word, with a colon and a word, or with a dash and a blank
\* (an edge begins with two dashes, a class assignment with three colons)
FreeText(rest) ==
    /\ rest # <<>>
    /\ \/ rest[1] \in Alnum
       \/ /\ rest[1] = ":"
          /\ TrimStart(Tail(rest)) # <<>>
          /\ TrimStart(Tail(rest))[1] \in Alnum
       \/ /\ rest[1] = "-"
          /\ Len(rest) >= 2
          /\ rest[2] = " "

\* position i of the line holds a closing delimiter outside double quotes
ClosesShape(line, i) ==
    /\ line[i] \in {"]", ")", "}"}
    /\ Cardinality({h \in 1..i : line[h] = "\""}) % 2 = 0

\* :::class, blanks, then a word
ReClassThenWord ==
    Cat(<<Lit(<<":",":",":">>), Plus(Ch(IdChar)), Plus(Ch({" ", "\t"})), Ch(Alnum)>>)

HasTrailingFreeText(line) ==
    \/ \E i \in 1..Len(line) :
          ClosesShape(line, i) /\ FreeText(TrimStart(SubSeq(line, i + 1, Len(line))))
    \/ Test(ReClassThenWord, line)

\* C18: no line of the output other than a comment line has free text
\* after a closing delimiter of a node shape (], ), }) or after a :::class
\* token, whether or not a colon or a dash introduces the text.
C18_NoTrailingFreeText ==
    Normalized =>
        \A i \in 1..Len(OutLines) :
            StartsWith(OutLines[i], CommentMark) \/ ~HasTrailingFreeText(OutLines[i])

InLines == Split(raw, "\n")

RECURSIVE FirstWord(_)
\* the letters a line begins with
FirstWord(line) ==
    IF line # <<>> /\ Head(line) \in Lower \cup Upper
       THEN <<Head(line)>> \o FirstWord(Tail(line))
       ELSE <<>>

\* the line is a reserved word directly followed by a bracket
BracketAfterWord(line) ==
    /\ Len(line) > Len(FirstWord(line))
    /\ line[Len(FirstWord(line)) + 1] = "["

\* C19: an input line whose first token is a reserved word (subgraph,
\* class, classDef, style, click, direction) gives an output line with the
\* same first token, whatever identifier follows the word, and when a
\* bracket follows the word directly the line comes out as it went in.
C19_ReservedWordsKept ==
    Normalized =>
        \A i \in 1..Len(InLines) :
            FirstWord(Trim(InLines[i])) \in ReservedWords =>
                /\ \E j \in 1..Len(OutLines) :
                      FirstWord(OutLines[j]) = FirstWord(Trim(InLines[i]))
                /\ BracketAfterWord(Trim(InLines[i])) =>
                      \E j \in 1..Len(OutLines) : OutLines[j] = Trim(InLines[i])

\* C20: for every input, the empty one and those whose every line is
\* reduced to nothing included, no line of the output is empty and none
\* consists of an edge operator alone.
C20_NoEmptyOrArrowLine ==
    Normalized =>
        \A i \in 1..Len(OutLines) :
            /\ OutLines[i] # <<>>
            /\ ~Test(ReOnlyArrow, Trim(OutLines[i]))

-----------------------------------------------------------------------------
(* Further properties of the text-response generateArchitecture *)

\* the text holds a direction declaration (graph ..., flowchart ...) or the
\* word subgraph
HasDiagramKeyword(text) ==
    \/ Includes(text, kwGraph \o <<" ">>)
    \/ Includes(text, kwFlowchart \o <<" ">>)
    \/ Includes(text, <<"s","u","b">> \o kwGraph)

\* C21: for a response text without a fenced block, the whole text is
\* taken as diagram source and normalized when it holds a direction
\* declaration (graph ... or flowchart ...) or the word subgraph, and
\* mermaidCode is empty when it holds none of them.
C21_KeywordTextIsSource ==
    (answer # <<>> /\ ~Fenced) =>
        answer[1].mermaidCode =
            IF HasDiagramKeyword(raw) THEN cleanMermaidCodeText(raw) ELSE <<>>

-----------------------------------------------------------------------------
(* Properties of handleSendMessage *)

\* owner/repo: two segments, neither empty, with no blank and no dot
Shorthand(p) ==
    /\ Len(Split(p, "/")) = 2
    /\ \A i \in 1..2 :
          /\ Split(p, "/")[i] # <<>>
          /\ \A k \in 1..Len(Split(p, "/")[i]) : Split(p, "/")[i][k] \notin WS \cup {"."}

\* an address whose host holds github.com, followed by an owner and a
\* repo segment
GithubAddress(p) ==
    /\ Len(Split(p, "/")) >= 3
    /\ Includes(Split(p, "/")[1], GithubCom)
    /\ Split(p, "/")[2] # <<>>
    /\ Split(p, "/")[3] # <<>>

WithoutScheme(p) ==
    IF StartsWith(p, Https) THEN SubSeq(p, Len(Https) + 1, Len(p)) ELSE p

RepositoryReference(p) ==
    Shorthand(Trim(p)) \/ GithubAddress(WithoutScheme(Trim(p)))

\* C22: handleSendMessage calls fetchRepoContext only for an input that is
\* a GitHub address with an owner and a repo segment or an owner/repo
\* shorthand of two non-empty segments; every other prompt, free text
\* holding one slash included, goes to the model as typed.
C22_FetchOnlyForRepositoryReference ==
    \A c \in 1..Len(calls) :
        calls[c].analyzingId # 0 <=> RepositoryReference(calls[c].finalInput)

-----------------------------------------------------------------------------
(* Properties of the selection *)

\* C23: whenever selectedNode is not null it is one of the records of the
\* current currentNodeDetails, after any sequence of clicks, generations,
\* history selections and Explore Diagram actions.
C23_SelectedNodeIsCurrent ==
    selectedNode # <<>> =>
        \E i \in 1..Len(currentNodeDetails) : currentNodeDetails[i] = selectedNode[1]

-----------------------------------------------------------------------------
(* Properties of the render effect *)

Latest == [code |-> currentDiagramCode, theme |-> theme]

\* C24: once no render is in flight, DiagramRenderer displays the latest
\* code and theme: either no error is set and the SVG is the one rendered
\* from them, or the error is set and no SVG of them exists because that
\* code was rejected; the outcome of an earlier render never stands in
\* place of the latest one.
C24_SettledShowsLatest ==
    (renders = <<>> /\ currentDiagramCode # <<>>) =>
        \/ ~error /\ svgContent = <<Latest>>
        \/ error /\ svgContent # <<Latest>>

-----------------------------------------------------------------------------
(* Properties of the click listeners *)

\* C25: a click on a node runs the resolver exactly once, over the
\* currentNodeDetails of the moment of the click; no listener of an earlier
\* render is still attached to the node.
C25_OneResolverPerClick ==
    lastClick # <<>> => lastClick[1].searched = <<lastClick[1].details>>

-----------------------------------------------------------------------------
(* Properties of the requests of handleSendMessage *)

\* C26: at most one generation request is outstanding at any time, and
\* isLoading is true as long as it is, which keeps the textarea, the send
\* button and the presets from starting handleSendMessage again.
C26_OneRequestOutstanding ==
    /\ Len(calls) <= 1
    /\ calls # <<>> => isLoading

\* C26 witness: a first generation has ended with a diagram and a second
\* request is outstanding, alone
C26_SecondRequestOutstanding ==
    /\ Len(calls) = 1
    /\ isLoading
    /\ Len(diagramVersions) = 1
    /\ Len(SelectSeq(messages, LAMBDA m : m.sender = "user")) = 2

\* C27: every request that sets isLoading to true sets it back to false,
\* whether it succeeds, the repository fetch fails or the generation fails,
\* provided fetchRepoContext and generateArchitecture return or throw; and
\* isLoading is never true while no request is outstanding.
C27_LoadingEnds ==
    /\ [](isLoading => calls # <<>>)
    /\ isLoading ~> ~isLoading

\* C27 witness: two requests have ended, one by a failed repository fetch
\* and one by an answer of the model, and isLoading is false
C27_BothPathsEnded ==
    /\ ~isLoading
    /\ calls = <<>>
    /\ \E k \in 1..Len(messages) : messages[k].text = "GitHub Sync Failed"
    /\ \E k \in 1..Len(messages) : messages[k].text = "explanation"

\* C28: a request that fails changes no diagram state: currentDiagramCode,
\* currentNodeDetails, diagramVersions and selectedNode are the same after
\* it as before, exactly one message is appended and it is marked isError,
\* and after a failed repository fetch the request is over, so that
\* generateArchitecture is never called for it.
C28_FailureKeepsDiagramState ==
    [][ (\E c \in 1..Len(calls) : FetchRejected(c) \/ GenerateRejected(c)) =>
           /\ currentDiagramCode' = currentDiagramCode
           /\ currentNodeDetails' = currentNodeDetails
           /\ diagramVersions' = diagramVersions
           /\ selectedNode' = selectedNode
           /\ Len(messages') = Len(messages) + 1
           /\ SubSeq(messages', 1, Len(messages)) = messages
           /\ messages'[Len(messages')].isError
           /\ \A c \in 1..Len(calls') : calls'[c].pc # "generateArchitecture" ]_vars

\* C28 witness: a request has failed while a diagram was current and one
\* of its nodes selected
C28_FailedWithNodeSelected ==
    /\ messages # <<>>
    /\ messages[Len(messages)].isError
    /\ calls = <<>>
    /\ selectedNode # <<>>
    /\ Len(diagramVersions) = 1
    /\ currentDiagramCode = diagramVersions[1].code

-----------------------------------------------------------------------------
(* Properties of the selection and the highlighted element *)

\* C29: in every reachable state selectedNode is null exactly when
\* activeElementId is null.
C29_NodeAndElementTogether ==
    selectedNode = <<>> <=> activeElementId = <<>>

\* C29 witness: with two versions in the history and nothing selected, a
\* click has selected a record together with the element clicked
C29_SelectedAfterCleared ==
    /\ selectedNode # <<>>
    /\ activeElementId # <<>>
    /\ lastClick # <<>>
    /\ lastClick[1].before.node = <<>>
    /\ Len(diagramVersions) = 2

\* the record answers the click by a comparison in which the equal or
\* contained string is not empty
AnswersByContent(d, nodeId, label) ==
    \/ Normal(d.id) = Normal(nodeId) /\ Normal(nodeId) # <<>>
    \/ Normal(d.label) = Normal(label) /\ Normal(label) # <<>>
    \/ (Contains(Normal(label), Normal(d.label)) /\ Len(Normal(d.label)) > 3)
    \/ (Contains(Normal(d.label), Normal(label)) /\ Len(Normal(label)) > 3)

\* C30: handleNodeClick never selects a record merely because two
\* normalized strings are both empty: a record a click selects has a
\* non-empty normalized id equal to the node's, or a non-empty normalized
\* label equal to, containing or contained in the element's.
C30_NoSelectionByEmptyStrings ==
    (lastClick # <<>> /\ selectedNode # <<>> /\ selectedNode # lastClick[1].before.node) =>
        AnswersByContent(selectedNode[1], lastClick[1].nodeId, lastClick[1].label)

=============================================================================
